---- MODULE Spec2Model ----
(***************************************************************************)
(* Expense tracker: the Entry Editor (ExpenseForm), the Collection View    *)
(* (ExpenseList) and the Entry Renderer (ExpenseCard).                     *)
(*                                                                         *)
(* Text is a sequence of one-character strings, so that trim() and         *)
(* parseFloat() are computed character by character as the runtime does.   *)
(* Numbers are fixed-point integers in units of 1/Scale.                   *)
(***************************************************************************)
EXTENDS Integers, Sequences, FiniteSets, TLC

VARIABLES
    formData,        \* ExpenseForm: the draft {description, amount, category, date}
    errors,          \* ExpenseForm: the FormErrors object
    validation,      \* result of a direct call of validateExpenseForm
    expenses,        \* ExpenseList: the expenses prop (owned by the caller)
    onDeleteExpense, \* ExpenseList: whether the optional callback prop is supplied
    filterCategory,  \* ExpenseList: the filter selection
    view,            \* ExpenseList: what the last render produced
    handler,         \* the handler that ran last
    emitted,         \* callbacks / alerts invoked by the handler that ran last
    nAccepted,       \* number of submit attempts whose validation passed
    nSubmitted       \* number of onSubmit invocations

vars == <<formData, errors, validation, expenses, onDeleteExpense,
          filterCategory, view, handler, emitted, nAccepted, nSubmitted>>

formVars == <<formData, errors, nAccepted, nSubmitted>>
listVars == <<expenses, onDeleteExpense, filterCategory, view>>

----------------------------------------------------------------------------
(* Bounds *)

MaxDescLen == 2

MaxAmountLen == 2

MaxSubmits == 2

MaxExpenses == 2

----------------------------------------------------------------------------
(* Text *)

DescChars == {" ", "a"}

\* characters of the amount texts handed to validateExpenseForm directly
AmountChars == {"0", "5", "-", ".", " "}

\* characters typed into the amount input of the editor
AmountKeys == {"0", "5", "-", "."}

RECURSIVE StringsUpTo(_, _)
StringsUpTo(chars, n) ==
    IF n = 0 THEN {<<>>}
    ELSE LET shorter == StringsUpTo(chars, n - 1)
         IN  shorter \cup {Append(s, c) : s \in shorter, c \in chars}

RECURSIVE Pow10(_)
Pow10(n) == IF n = 0 THEN 1 ELSE 10 * Pow10(n - 1)

\* One unit of a Number is 1/Scale; every amount text of the model has fewer
\* than MaxAmountLen fractional digits.
Scale == Pow10(MaxAmountLen)

IsWhiteSpace(c) == c = " "

IsDigit(c) == c \in {"0", "5"}

DigitVal(c) == IF c = "5" THEN 5 ELSE 0

\* String.prototype.trim
RECURSIVE TrimStart(_)
TrimStart(s) ==
    IF s # <<>> /\ IsWhiteSpace(Head(s)) THEN TrimStart(Tail(s)) ELSE s

RECURSIVE TrimEnd(_)
TrimEnd(s) ==
    IF s # <<>> /\ IsWhiteSpace(s[Len(s)])
    THEN TrimEnd(SubSeq(s, 1, Len(s) - 1))
    ELSE s

TrimLeadingOnly(s) == TrimStart(s)

Trim(s) == TrimEnd(TrimStart(s))

\* the longest run of decimal digits at the head of s
RECURSIVE DigitRun(_)
DigitRun(s) ==
    IF s # <<>> /\ IsDigit(Head(s)) THEN <<Head(s)>> \o DigitRun(Tail(s)) ELSE <<>>

RECURSIVE DigitsValue(_)
DigitsValue(ds) ==
    IF ds = <<>> THEN 0
    ELSE 10 * DigitsValue(SubSeq(ds, 1, Len(ds) - 1)) + DigitVal(ds[Len(ds)])

Drop(s, n) == SubSeq(s, n + 1, Len(s))

NaN == [isNaN |-> TRUE, value |-> 0]

Num(v) == [isNaN |-> FALSE, value |-> v]

\* parseFloat: skip leading white space, then read the longest prefix that is
\* a decimal literal  [-] digits [. digits]  |  [-] . digits ; NaN if there is none.
parseFloat(text) ==
    LET s        == TrimStart(text)
        negative == s # <<>> /\ Head(s) = "-"
        body     == IF negative THEN Tail(s) ELSE s
        intPart  == DigitRun(body)
        rest     == Drop(body, Len(intPart))
        fracPart == IF rest # <<>> /\ Head(rest) = "." THEN DigitRun(Tail(rest)) ELSE <<>>
        mag      == DigitsValue(intPart) * Scale
                    + (DigitsValue(fracPart) * Scale) \div Pow10(Len(fracPart))
    IN  IF intPart = <<>> /\ fracPart = <<>> THEN NaN
        ELSE Num(IF negative THEN 0 - mag ELSE mag)

isNaN(n) == n.isNaN

\* n <= 0 on numbers: every comparison with NaN is false
LeqZero(n) == ~n.isNaN /\ n.value <= 0

----------------------------------------------------------------------------
(* ExpenseForm *)

\* ExpenseCategory
Categories == {"Food", "Transportation", "Entertainment", "Shopping", "Other"}

\* the <option> values of the form's category <select>
FormCategoryOptions == {"Food", "Transportation", "Entertainment", "Shopping", "Other"}

Fields == {"description", "amount", "category", "date"}

\* new Date().toISOString().split('T')[0]; the clock does not reach midnight
\* (UTC) during the session
Today == "2024-01-05"

OtherDay == "2023-12-31"

\* values a date input can hold: empty (cleared) or an ISO date
Dates == {"", Today, OtherDay}

DescTexts == StringsUpTo(DescChars, MaxDescLen)

AmountTexts == StringsUpTo(AmountChars, MaxAmountLen)

\* A FormErrors object is the map from each of its four optional keys to what
\* reading the key yields: a message, or undefined (key absent, or assigned
\* undefined: the component only ever reads errors.<key>, never its key set).
Undefined == "undefined"

EmptyObject == [k \in Fields |-> Undefined]

\* obj[k] = v
SetKey(obj, k, v) == [obj EXCEPT ![k] = v]

\* truthiness of errors[name]: every message is a non-empty string
HasError(errs, name) == errs[name] # Undefined

\* Object.keys(obj).length === 0, on an object whose keys were all assigned
\* messages (validationErrors)
NoKeys(obj) == \A k \in Fields : obj[k] = Undefined

\* a draft that starts without a category
InitialFormDataNoCategory ==
    [description |-> <<>>, amount |-> <<>>, category |-> "", date |-> Today]

\* useState<ExpenseFormData>({...}): the draft after construction
InitialFormData ==
    [description |-> <<>>, amount |-> <<>>, category |-> "Food", date |-> Today]

ResetFormDataEmptyDate ==
    [description |-> <<>>, amount |-> <<>>, category |-> "Food", date |-> ""]

\* setFormData({...}) after a successful submission
ResetFormData ==
    [description |-> <<>>, amount |-> <<>>, category |-> "Food", date |-> Today]

\* the rules chained with else-if: only the first violated rule is reported
validateFirstErrorOnly(data) ==
    LET amount == parseFloat(data.amount)
        e == IF Trim(data.description) = <<>>
             THEN SetKey(EmptyObject, "description", "Description is required")
             ELSE IF isNaN(amount) \/ LeqZero(amount)
             THEN SetKey(EmptyObject, "amount", "Amount must be a positive number")
             ELSE IF data.category = ""
             THEN SetKey(EmptyObject, "category", "Category is required")
             ELSE IF data.date = ""
             THEN SetKey(EmptyObject, "date", "Date is required")
             ELSE EmptyObject
    IN  [isValid |-> NoKeys(e), errors |-> e]

validateExpenseForm(data) ==
    LET e0     == EmptyObject
        e1     == IF Trim(data.description) = <<>>
                  THEN SetKey(e0, "description", "Description is required")
                  ELSE e0
        amount == parseFloat(data.amount)
        e2     == IF isNaN(amount) \/ LeqZero(amount)
                  THEN SetKey(e1, "amount", "Amount must be a positive number")
                  ELSE e1
        e3     == IF data.category = ""
                  THEN SetKey(e2, "category", "Category is required")
                  ELSE e2
        e4     == IF data.date = ""
                  THEN SetKey(e3, "date", "Date is required")
                  ELSE e3
    IN  [isValid |-> NoKeys(e4), errors |-> e4]

\* setFormData(prev => ({...prev, [name]: value}))
InputChangeData(data, name, value) == [data EXCEPT ![name] = value]

\* an edit that leaves the error map as it is
InputChangeErrorsKept(errs, name) == errs

\* an edit that drops every error, not only the edited field's
InputChangeErrorsClearAll(errs, name) ==
    IF HasError(errs, name) THEN EmptyObject ELSE errs

\* if (errors[name]) setErrors(prev => ({...prev, [name]: undefined}))
InputChangeErrors(errs, name) ==
    IF HasError(errs, name) THEN SetKey(errs, name, Undefined) ELSE errs

\* the "Basic validation" block that follows the structured validation
BasicCheckFails(data) ==
    Trim(data.description) = <<>> \/ data.amount = <<>> \/ data.date = ""

\* a second check stricter than the first: amounts below 1 are turned away
AmountCheckFailsBelowOne(data) ==
    ~parseFloat(data.amount).isNaN /\ parseFloat(data.amount).value < Scale

\* const amount = parseFloat(formData.amount); if (amount <= 0) ...
AmountCheckFails(data) == LeqZero(parseFloat(data.amount))

\* the description handed over as typed
SubmitPayloadUntrimmed(data) ==
    [description |-> data.description,
     amount      |-> parseFloat(data.amount),
     category    |-> data.category,
     date        |-> data.date]

\* the object handed to onSubmit
SubmitPayload(data) ==
    [description |-> Trim(data.description),
     amount      |-> parseFloat(data.amount),
     category    |-> data.category,
     date        |-> data.date]

OnSubmitCall(payload) == [callback |-> "onSubmit", arg |-> payload]

AlertCall(msg) == [callback |-> "alert", arg |-> msg]

----------------------------------------------------------------------------
(* ExpenseList and ExpenseCard *)

\* type FilterOption = 'All' | ExpenseCategory
FilterOption == {"All"} \cup Categories

\* the <option> values of the filter <select>
FilterSelectOptions == {"All", "Food", "Transportation", "Entertainment", "Other"}

\* amounts of the collection, in cents
ExpenseAmounts == {1250, 725}

ExpenseIds == 1..MaxExpenses

Expense == [id : ExpenseIds, amount : ExpenseAmounts, category : Categories]

UniqueIds(exps) == \A i, j \in 1..Len(exps) : exps[i].id = exps[j].id => i = j

RECURSIVE SeqsUpTo(_, _)
SeqsUpTo(S, n) ==
    IF n = 0 THEN {<<>>}
    ELSE LET shorter == SeqsUpTo(S, n - 1)
         IN  shorter \cup {Append(q, x) : q \in shorter, x \in S}

\* collections the owner can supply: ids are unique within the collection
Collections == {exps \in SeqsUpTo(Expense, MaxExpenses) : UniqueIds(exps)}

\* Array.prototype.filter with expense => expense.category === filter
RECURSIVE FilterByCategory(_, _)
FilterByCategory(exps, filter) ==
    IF exps = <<>> THEN <<>>
    ELSE (IF Head(exps).category = filter THEN <<Head(exps)>> ELSE <<>>)
         \o FilterByCategory(Tail(exps), filter)

\* the filter applied whatever the selection: nothing has category "All"
FilteredExpensesNoAll(exps, filter) == FilterByCategory(exps, filter)

FilteredExpenses(exps, filter) ==
    IF filter = "All" THEN exps ELSE FilterByCategory(exps, filter)

\* reduce((sum, expense) => sum + expense.amount, 0)
RECURSIVE FilteredTotal(_)
FilteredTotal(exps) ==
    IF exps = <<>> THEN 0
    ELSE FilteredTotal(SubSeq(exps, 1, Len(exps) - 1)) + exps[Len(exps)].amount

DecimalDigits == <<"0", "1", "2", "3", "4", "5", "6", "7", "8", "9">>

RECURSIVE IntToText(_)
IntToText(n) ==
    IF n < 10 THEN <<DecimalDigits[n + 1]>>
    ELSE Append(IntToText(n \div 10), DecimalDigits[(n % 10) + 1])

\* Number.prototype.toFixed(2) of a non-negative amount of whole cents
ToFixed2(cents) ==
    IntToText(cents \div 100)
    \o <<".", DecimalDigits[((cents \div 10) % 10) + 1], DecimalDigits[(cents % 10) + 1]>>

\* <ExpenseCard key={expense.id} {...expense} onDelete={onDeleteExpense} />:
\* the card shows the delete button only when onDelete is supplied
ExpenseCard(expense, onDelete) ==
    [id |-> expense.id, amount |-> expense.amount, category |-> expense.category,
     onDelete |-> onDelete, deleteButton |-> onDelete]

\* the placeholder shown only for an empty collection, not for an empty
\* visible set
RenderPlaceholderForEmptyCollection(exps, filter, onDelete) ==
    LET filteredExpenses == FilteredExpenses(exps, filter)
        filteredTotal    == FilteredTotal(filteredExpenses)
    IN  [rendered         |-> TRUE,
         filteredExpenses |-> filteredExpenses,
         totalText        |-> ToFixed2(filteredTotal),
         total            |-> filteredTotal,
         count            |-> Len(filteredExpenses),
         placeholder      |-> Len(exps) = 0,
         cards            |-> [i \in 1..Len(filteredExpenses) |->
                                  ExpenseCard(filteredExpenses[i], onDelete)]]

\* one run of the component function: the derived values and the markup
Render(exps, filter, onDelete) ==
    LET filteredExpenses == FilteredExpenses(exps, filter)
        filteredTotal    == FilteredTotal(filteredExpenses)
    IN  [rendered         |-> TRUE,
         filteredExpenses |-> filteredExpenses,
         totalText        |-> ToFixed2(filteredTotal),
         total            |-> filteredTotal,
         count            |-> Len(filteredExpenses),
         placeholder      |-> Len(filteredExpenses) = 0,
         cards            |-> [i \in 1..Len(filteredExpenses) |->
                                  ExpenseCard(filteredExpenses[i], onDelete)]]

\* the total kept from the previous render while the collection is the same
RerenderMemoTotal(prev, exps, filter, onDelete) ==
    IF exps = expenses
    THEN [Render(exps, filter, onDelete) EXCEPT !.total = prev.total,
                                                !.totalText = prev.totalText]
    ELSE Render(exps, filter, onDelete)

\* a state or props change runs the component function again; nothing of the
\* previous render is kept
Rerender(prev, exps, filter, onDelete) == Render(exps, filter, onDelete)

NotRendered ==
    [rendered |-> FALSE, filteredExpenses |-> <<>>, totalText |-> <<>>, total |-> 0,
     count |-> 0, placeholder |-> FALSE, cards |-> <<>>]

OnDeleteCall(id) == [callback |-> "onDeleteExpense", arg |-> id]

----------------------------------------------------------------------------
(* Specifications *)

NoValidation == [isValid |-> FALSE, errors |-> EmptyObject, called |-> FALSE]

InitForm ==
    /\ formData = InitialFormData
    /\ errors = EmptyObject
    /\ nAccepted = 0
    /\ nSubmitted = 0

\* useState<FilterOption>('All'), and the first render
InitList ==
    /\ expenses = <<>>
    /\ onDeleteExpense \in BOOLEAN
    /\ filterCategory = "All"
    /\ view = Render(expenses, filterCategory, onDeleteExpense)

InitEditor ==
    /\ expenses = <<>>
    /\ onDeleteExpense = TRUE
    /\ filterCategory = "All"
    /\ view = Render(expenses, filterCategory, onDeleteExpense)

Init ==
    /\ InitForm
    /\ InitEditor
    /\ validation = NoValidation
    /\ handler = "none"
    /\ emitted = <<>>

\* the texts one keystroke away from text: a character typed at the end, or
\* the last character deleted
Keystrokes(text, chars, maxLen) ==
    {Append(text, c) : c \in IF Len(text) < maxLen THEN chars ELSE {}}
    \cup (IF text = <<>> THEN {} ELSE {SubSeq(text, 1, Len(text) - 1)})

\* values the input named `name` can report in its next change event
FieldValues(name) ==
    CASE name = "description" -> Keystrokes(formData.description, DescChars, MaxDescLen)
      [] name = "amount"      -> Keystrokes(formData.amount, AmountKeys, MaxAmountLen)
      [] name = "category"    -> FormCategoryOptions
      [] name = "date"        -> Dates

HandleInputChange(name, value) ==
    /\ formData' = InputChangeData(formData, name, value)
    /\ errors' = InputChangeErrors(errors, name)
    /\ handler' = "handleInputChange"
    /\ emitted' = <<>>
    /\ UNCHANGED <<nAccepted, nSubmitted, validation>>
    /\ UNCHANGED listVars

\* a rejection that also resets the draft
SubmitRejectedResetsDraft(data, errs, v) ==
    [formData |-> ResetFormData, errors |-> v.errors, emitted |-> <<>>]

\* if (!validation.isValid) { setErrors(validation.errors); return; }
SubmitRejected(data, errs, v) ==
    [formData |-> data, errors |-> v.errors, emitted |-> <<>>]

\* the rest of handleSubmit, reached when validation.isValid
SubmitAccepted(data, errs, v) ==
    IF BasicCheckFails(data)
    THEN [formData |-> data, errors |-> EmptyObject,
          emitted  |-> <<AlertCall("Please fill in all required fields")>>]
    ELSE IF AmountCheckFails(data)
    THEN [formData |-> data, errors |-> EmptyObject,
          emitted  |-> <<AlertCall("Amount must be greater than 0")>>]
    ELSE [formData |-> ResetFormData, errors |-> EmptyObject,
          emitted  |-> <<OnSubmitCall(SubmitPayload(data))>>]

IsOnSubmit(call) == call.callback = "onSubmit"

OnSubmitCalls(calls) == SelectSeq(calls, IsOnSubmit)

HandleSubmit ==
    LET v   == validateExpenseForm(formData)
        out == IF v.isValid THEN SubmitAccepted(formData, errors, v)
                            ELSE SubmitRejected(formData, errors, v)
    IN  /\ v.isValid => nAccepted < MaxSubmits
        /\ handler' = "handleSubmit"
        /\ formData' = out.formData
        /\ errors' = out.errors
        /\ emitted' = out.emitted
        /\ nAccepted' = IF v.isValid THEN nAccepted + 1 ELSE nAccepted
        /\ nSubmitted' = nSubmitted + Len(OnSubmitCalls(out.emitted))
        /\ UNCHANGED validation
        /\ UNCHANGED listVars

EditField == \E name \in Fields : \E value \in FieldValues(name) : HandleInputChange(name, value)

Next ==
    \/ EditField
    \/ HandleSubmit

Spec == Init /\ [][Next]_vars

----------------------------------------------------------------------------
(* validateExpenseForm called directly on any draft *)

AnyCategory == Categories \cup {""}

Drafts == [description : DescTexts, amount : AmountTexts, category : AnyCategory, date : Dates]

InitValidate ==
    /\ formData \in Drafts
    /\ errors = EmptyObject
    /\ nAccepted = 0
    /\ nSubmitted = 0
    /\ InitEditor
    /\ validation = NoValidation
    /\ handler = "none"
    /\ emitted = <<>>

Validate ==
    /\ ~validation.called
    /\ validation' = [isValid |-> validateExpenseForm(formData).isValid,
                      errors  |-> validateExpenseForm(formData).errors,
                      called  |-> TRUE]
    /\ handler' = "validateExpenseForm"
    /\ UNCHANGED <<formData, errors, nAccepted, nSubmitted, emitted>>
    /\ UNCHANGED listVars

NextValidate == Validate

SpecValidate == InitValidate /\ [][NextValidate]_vars

----------------------------------------------------------------------------
(* ExpenseList rendered once for any collection and any selection *)

InitView ==
    /\ InitForm
    /\ validation = NoValidation
    /\ handler = "none"
    /\ emitted = <<>>
    /\ expenses \in Collections
    /\ onDeleteExpense \in BOOLEAN
    /\ filterCategory \in FilterOption
    /\ view = NotRendered

RenderList ==
    /\ ~view.rendered
    /\ view' = Render(expenses, filterCategory, onDeleteExpense)
    /\ handler' = "ExpenseList"
    /\ UNCHANGED <<expenses, onDeleteExpense, filterCategory, emitted, validation>>
    /\ UNCHANGED formVars

NextView == RenderList

SpecView == InitView /\ [][NextView]_vars

----------------------------------------------------------------------------
(* ExpenseList over a collection that its owner changes *)

InitCollection ==
    /\ InitForm
    /\ InitList
    /\ validation = NoValidation
    /\ handler = "none"
    /\ emitted = <<>>

\* the selection applied to the collection itself
ExpensesFilteredInPlace(exps, value) == FilteredExpenses(exps, value)

\* handleCategoryChange never touches the expenses prop
ExpensesAfterCategoryChange(exps, value) == exps

\* setFilterCategory(event.target.value), then the re-render
HandleCategoryChange(value) ==
    /\ filterCategory' = value
    /\ expenses' = ExpensesAfterCategoryChange(expenses, value)
    /\ view' = Rerender(view, expenses', filterCategory', onDeleteExpense)
    /\ handler' = "handleCategoryChange"
    /\ emitted' = <<>>
    /\ UNCHANGED <<onDeleteExpense, validation>>
    /\ UNCHANGED formVars

\* e.stopPropagation() on the click event of the i-th card's button
StopPropagationCall(i) == [callback |-> "stopPropagation", arg |-> i]

\* the callback invoked before the click is stopped
DeleteCallsThenStop(card, i) ==
    (IF card.onDelete THEN <<OnDeleteCall(card.id)>> ELSE <<>>) \o <<StopPropagationCall(i)>>

\* the body of handleDelete: e.stopPropagation(); if (onDelete) onDelete(id)
DeleteCalls(card, i) ==
    <<StopPropagationCall(i)>> \o (IF card.onDelete THEN <<OnDeleteCall(card.id)>> ELSE <<>>)

\* ExpenseCard.handleDelete of the i-th card, reached through its delete button
HandleDelete(i) ==
    /\ view.cards[i].deleteButton
    /\ handler' = "handleDelete"
    /\ emitted' = DeleteCalls(view.cards[i], i)
    /\ UNCHANGED <<expenses, onDeleteExpense, filterCategory, view, validation>>
    /\ UNCHANGED formVars

\* the owner supplies a collection with one more entry
OwnerAppends(e) ==
    /\ Len(expenses) < MaxExpenses
    /\ \A i \in 1..Len(expenses) : expenses[i].id # e.id
    /\ expenses' = Append(expenses, e)
    /\ view' = Rerender(view, expenses', filterCategory, onDeleteExpense)
    /\ handler' = "owner"
    /\ emitted' = <<>>
    /\ UNCHANGED <<onDeleteExpense, filterCategory, validation>>
    /\ UNCHANGED formVars

RECURSIVE WithoutId(_, _)
WithoutId(exps, id) ==
    IF exps = <<>> THEN <<>>
    ELSE (IF Head(exps).id = id THEN <<>> ELSE <<Head(exps)>>) \o WithoutId(Tail(exps), id)

\* the owner supplies the collection without the entry of that id
OwnerDeletes(id) ==
    /\ \E i \in 1..Len(expenses) : expenses[i].id = id
    /\ expenses' = WithoutId(expenses, id)
    /\ view' = Rerender(view, expenses', filterCategory, onDeleteExpense)
    /\ handler' = "owner"
    /\ emitted' = <<>>
    /\ UNCHANGED <<onDeleteExpense, filterCategory, validation>>
    /\ UNCHANGED formVars

ChangeFilter == \E value \in FilterSelectOptions : HandleCategoryChange(value)

ClickDelete == \E i \in 1..Len(view.cards) : HandleDelete(i)

OwnerAdds == \E e \in Expense : OwnerAppends(e)

OwnerRemoves == \E id \in ExpenseIds : OwnerDeletes(id)

NextList ==
    \/ ChangeFilter
    \/ ClickDelete
    \/ OwnerAdds
    \/ OwnerRemoves

SpecList == InitCollection /\ [][NextList]_vars

----------------------------------------------------------------------------
(* The rules of the Entry Editor, stated on the draft *)

Spaces(n) == [i \in 1..n |-> " "]

NoOuterSpace(t) == t = <<>> \/ (t[1] # " " /\ t[Len(t)] # " ")

\* t is text without its leading and trailing white space
IsTrimOf(t, text) ==
    /\ NoOuterSpace(t)
    /\ \E i, j \in 0..Len(text) : text = Spaces(i) \o t \o Spaces(j)

DescriptionBlank(d) == \A i \in 1..Len(d.description) : d.description[i] = " "

AmountNotPositive(d) ==
    parseFloat(d.amount).isNaN \/ parseFloat(d.amount).value <= 0

CategoryMissing(d) == d.category = ""

DateMissing(d) == d.date = ""

RuleViolated(f, d) ==
    CASE f = "description" -> DescriptionBlank(d)
      [] f = "amount"      -> AmountNotPositive(d)
      [] f = "category"    -> CategoryMissing(d)
      [] f = "date"        -> DateMissing(d)

RuleMessage(f) ==
    CASE f = "description" -> "Description is required"
      [] f = "amount"      -> "Amount must be a positive number"
      [] f = "category"    -> "Category is required"
      [] f = "date"        -> "Date is required"

ValidDraft(d) ==
    /\ ~DescriptionBlank(d)
    /\ ~AmountNotPositive(d)
    /\ d.category \in Categories
    /\ ~DateMissing(d)

ValidPayload(x) ==
    /\ x.description # <<>>
    /\ NoOuterSpace(x.description)
    /\ ~x.amount.isNaN
    /\ x.amount.value > 0
    /\ x.category \in Categories
    /\ x.date # ""

SubmitStep == handler' = "handleSubmit"

EditStep == handler' = "handleInputChange"

----------------------------------------------------------------------------
(* Claims *)

\* C1: a submit attempt on a draft with a non-blank description, an amount text
\* that parses to a number > 0, a category of the enumeration and a non-empty
\* date yields an empty validation result and invokes onSubmit exactly once
\* with {trimmed description, parsed amount, category, date} of that draft.
C1_ValidDraftIsSubmitted ==
    [][(SubmitStep /\ ValidDraft(formData)) =>
          /\ validateExpenseForm(formData).isValid
          /\ validateExpenseForm(formData).errors = EmptyObject
          /\ Len(emitted') = 1
          /\ emitted'[1].callback = "onSubmit"
          /\ IsTrimOf(emitted'[1].arg.description, formData.description)
          /\ emitted'[1].arg.amount = parseFloat(formData.amount)
          /\ emitted'[1].arg.category = formData.category
          /\ emitted'[1].arg.date = formData.date]_vars

\* a draft with amount 5, category Shopping and another day was submitted
C1_Witness ==
    /\ handler = "handleSubmit"
    /\ emitted = <<OnSubmitCall([description |-> <<"a">>, amount |-> Num(5 * Scale),
                                 category |-> "Shopping", date |-> OtherDay])>>

\* C2: every payload passed to onSubmit has a non-empty description without
\* leading or trailing white space, a numeric amount > 0, a category of the
\* enumeration and a non-empty date.
C2_NoInvalidRecordEmitted ==
    \A i \in 1..Len(emitted) :
        IsOnSubmit(emitted[i]) => ValidPayload(emitted[i].arg)

\* a fractional amount was emitted
C2_Witness ==
    /\ Len(emitted) = 1
    /\ IsOnSubmit(emitted[1])
    /\ emitted[1].arg.amount = Num(Scale \div 2)

\* C3: a submit attempt on a draft that violates a rule replaces the error map
\* by the map of that validation pass, does not invoke onSubmit and leaves the
\* draft as it was.
C3_RejectedSubmit ==
    [][(SubmitStep /\ \E f \in Fields : RuleViolated(f, formData)) =>
          /\ errors' = validateExpenseForm(formData).errors
          /\ \A f \in Fields :
                errors'[f] = IF RuleViolated(f, formData) THEN RuleMessage(f) ELSE Undefined
          /\ OnSubmitCalls(emitted') = <<>>
          /\ nSubmitted' = nSubmitted
          /\ formData' = formData]_vars

\* a rejected attempt on a draft with a description but a bad amount and no date
C3_Witness ==
    /\ handler = "handleSubmit"
    /\ emitted = <<>>
    /\ formData.description = <<"a">>
    /\ errors = [EmptyObject EXCEPT !["amount"] = RuleMessage("amount"),
                                    !["date"] = RuleMessage("date")]

\* C4: the map returned by validateExpenseForm has a message for a field if and
\* only if that field's rule is violated, each rule being judged on its own;
\* isValid is true exactly when no field has a message.
C4_RulesIndependent ==
    validation.called =>
        /\ \A f \in Fields :
              validation.errors[f] =
                  IF RuleViolated(f, formData) THEN RuleMessage(f) ELSE Undefined
        /\ validation.isValid <=> (\A f \in Fields : validation.errors[f] = Undefined)

\* all four rules violated at once, all four reported
C4_Witness ==
    /\ validation.called
    /\ \A f \in Fields : RuleViolated(f, formData) /\ validation.errors[f] = RuleMessage(f)

\* C5: after an accepted submit attempt the error map is empty and the draft is
\* {empty description, empty amount, Food, today}.
C5_AcceptedSubmitResets ==
    [][(SubmitStep /\ validateExpenseForm(formData).isValid) =>
          /\ \A f \in Fields : errors'[f] = Undefined
          /\ formData' = [description |-> <<>>, amount |-> <<>>,
                          category |-> "Food", date |-> Today]]_vars

\* an accepted draft with a non-default category and date: the draft is back
\* at its defaults
C5_Witness ==
    /\ handler = "handleSubmit"
    /\ Len(emitted) = 1
    /\ IsOnSubmit(emitted[1])
    /\ emitted[1].arg.category = "Other"
    /\ emitted[1].arg.date = OtherDay
    /\ formData = InitialFormData
    /\ errors = EmptyObject

\* C6: onSubmit is invoked exactly once per accepted submit attempt and never
\* otherwise: the counts agree in every state; a step invokes it (once, with
\* the payload of the draft of that step) exactly when it is a submit attempt
\* whose draft is valid; a submit attempt right after an acceptance, without an
\* edit in between, is rejected and invokes nothing.
C6_OnePerAcceptedSubmit ==
    /\ [](nSubmitted = nAccepted)
    /\ [][/\ nSubmitted' = nSubmitted + Len(OnSubmitCalls(emitted'))
          /\ Len(OnSubmitCalls(emitted')) =
                IF SubmitStep /\ ValidDraft(formData) THEN 1 ELSE 0
          /\ (SubmitStep /\ ValidDraft(formData)) =>
                /\ emitted'[1].arg.category = formData.category
                /\ emitted'[1].arg.date = formData.date
                /\ emitted'[1].arg.amount = parseFloat(formData.amount)
                /\ formData' = InitialFormData
          /\ (SubmitStep /\ handler = "handleSubmit" /\ OnSubmitCalls(emitted) # <<>>) =>
                /\ emitted' = <<>>
                /\ nSubmitted' = nSubmitted
                /\ errors'["description"] # Undefined]_vars

\* two accepted submissions, then a further attempt without an edit: rejected
C6_Witness ==
    /\ nSubmitted = 2
    /\ nAccepted = 2
    /\ handler = "handleSubmit"
    /\ emitted = <<>>
    /\ formData = InitialFormData
    /\ errors["description"] # Undefined
    /\ errors["amount"] # Undefined

\* C7: a field edit sets only the edited draft field, leaves the field without
\* an error entry, and leaves every other draft field and every other field's
\* error entry unchanged.
C7_EditIsFieldScoped ==
    [][EditStep =>
          \E f \in Fields : \E value \in FieldValues(f) :
              /\ formData'[f] = value
              /\ errors'[f] = Undefined
              /\ \A g \in Fields \ {f} :
                    /\ formData'[g] = formData[g]
                    /\ errors'[g] = errors[g]]_vars

\* the description was edited after a rejected attempt: its error is gone, the
\* amount's and the date's errors are still there
C7_Witness ==
    /\ handler = "handleInputChange"
    /\ formData.description # <<>>
    /\ errors = [EmptyObject EXCEPT !["amount"] = RuleMessage("amount"),
                                    !["date"] = RuleMessage("date")]
    /\ formData.amount = <<>>
    /\ formData.date = ""

----------------------------------------------------------------------------
(* The rules of the Collection View, stated on the collection *)

\* the positions of the entries the selection lets through
VisibleIndices(exps, filter) ==
    {i \in 1..Len(exps) : filter = "All" \/ exps[i].category = filter}

\* the k-th smallest member of a set of positions
KthIndex(I, k) == CHOOSE i \in I : Cardinality({j \in I : j < i}) = k - 1

\* the entries at the positions I, in the order of the collection
EntriesAt(exps, I) == [k \in 1..Cardinality(I) |-> exps[KthIndex(I, k)]]

RECURSIVE SumAmountsAt(_, _)
SumAmountsAt(exps, I) ==
    IF I = {} THEN 0
    ELSE LET i == CHOOSE x \in I : TRUE
         IN  exps[i].amount + SumAmountsAt(exps, I \ {i})

\* C8: the visible set is the whole collection in supplied order when the
\* selection is "All", and otherwise the entries whose category equals the
\* selection, in their order in the collection; the displayed count is the
\* length of the visible set.
C8_VisibleSetIsOrderedSelection ==
    view.rendered =>
        /\ filterCategory = "All" => view.filteredExpenses = expenses
        /\ view.filteredExpenses = EntriesAt(expenses, VisibleIndices(expenses, filterCategory))
        /\ view.count = Cardinality(VisibleIndices(expenses, filterCategory))
        /\ view.count = Len(view.filteredExpenses)

\* the first entry is filtered out, the second is shown
C8_Witness ==
    /\ view.rendered
    /\ filterCategory = "Other"
    /\ Len(expenses) = 2
    /\ expenses[1].category = "Food"
    /\ expenses[2].category = "Other"
    /\ view.filteredExpenses = <<expenses[2]>>
    /\ view.count = 1

\* C9: in every state the displayed total is the sum of amount over the
\* visible set of the current collection under the current selection, and 0
\* when that set is empty.
C9_TotalIsSumOfVisible ==
    /\ view.rendered
    /\ view.total = SumAmountsAt(expenses, VisibleIndices(expenses, filterCategory))
    /\ view.totalText = ToFixed2(SumAmountsAt(expenses, VisibleIndices(expenses, filterCategory)))
    /\ VisibleIndices(expenses, filterCategory) = {} =>
          view.total = 0 /\ view.totalText = <<"0", ".", "0", "0">>

\* the selection was Food before the owner supplied the second entry
C9_Witness ==
    /\ handler = "owner"
    /\ filterCategory = "Food"
    /\ Len(expenses) = 2
    /\ expenses[1].category = "Food" /\ expenses[1].amount = 1250
    /\ expenses[2].category = "Other" /\ expenses[2].amount = 725
    /\ view.total = 1250
    /\ view.totalText = <<"1", "2", ".", "5", "0">>

\* C10: a filter change changes the selection and nothing of the collection;
\* no action of the view changes the collection: it changes only in a step of
\* its owner, and all a card's delete button does is call the forwarded
\* callback.
C10_ViewNeverChangesCollection ==
    [][/\ handler' = "handleCategoryChange" =>
             /\ expenses' = expenses
             /\ onDeleteExpense' = onDeleteExpense
             /\ emitted' = <<>>
       /\ handler' = "handleDelete" =>
             /\ expenses' = expenses
             /\ filterCategory' = filterCategory
             /\ \E i \in 1..Len(view.filteredExpenses) :
                   emitted'[Len(emitted')] = OnDeleteCall(view.filteredExpenses[i].id)
       /\ expenses' # expenses => handler' = "owner"]_vars

\* a filter change that hides both entries of the collection
C10_Witness ==
    /\ handler = "handleCategoryChange"
    /\ filterCategory = "Entertainment"
    /\ Len(expenses) = 2
    /\ view.count = 0

\* C11: the placeholder is shown if and only if the visible set is empty, and
\* otherwise there is exactly one card per visible entry, in order; the total
\* area is rendered either way, and reads 0.00 with a count of 0 when the
\* visible set is empty.
C11_PlaceholderIffNothingVisible ==
    view.rendered =>
        LET visible == EntriesAt(expenses, VisibleIndices(expenses, filterCategory))
        IN  /\ view.placeholder <=> (visible = <<>>)
            /\ view.placeholder => view.cards = <<>>
            /\ Len(view.cards) = Len(visible)
            /\ \A k \in 1..Len(visible) : view.cards[k].id = visible[k].id
            /\ view.totalText # <<>>
            /\ visible = <<>> => view.totalText = <<"0", ".", "0", "0">> /\ view.count = 0

\* a collection of two entries, none of the selected category
C11_Witness ==
    /\ view.rendered
    /\ Len(expenses) = 2
    /\ filterCategory = "Transportation"
    /\ \A i \in 1..2 : expenses[i].category # "Transportation"
    /\ view.placeholder
    /\ view.cards = <<>>
    /\ view.totalText = <<"0", ".", "0", "0">>

\* C12: a card has a delete button if and only if a delete callback was
\* supplied, and every visible card gets the view's onDeleteExpense; a click on
\* the button of a card first stops the propagation of that click and then
\* calls the callback once, with the id of the entry of that card.
C12_DeleteCallsOwnId ==
    /\ [](\A k \in 1..Len(view.cards) :
             /\ view.cards[k].deleteButton <=> onDeleteExpense
             /\ view.cards[k].onDelete = onDeleteExpense
             /\ view.cards[k].id = view.filteredExpenses[k].id)
    /\ [][handler' = "handleDelete" =>
             /\ Len(emitted') = 2
             /\ emitted'[1].callback = "stopPropagation"
             /\ emitted'[1].arg \in 1..Len(view.filteredExpenses)
             /\ emitted'[2] = OnDeleteCall(view.filteredExpenses[emitted'[1].arg].id)]_vars

\* the second card was clicked; its entry has id 1
C12_Witness ==
    /\ handler = "handleDelete"
    /\ filterCategory = "All"
    /\ Len(expenses) = 2
    /\ expenses[2].id = 1
    /\ emitted = <<StopPropagationCall(2), OnDeleteCall(1)>>

\* C13: the filter control offers "All" and every member of the category
\* enumeration, so that every entry the editor can emit, once in the
\* collection, has a category that can be selected in the filter.
C13_FilterOffersEveryCategory ==
    \A i \in 1..Len(expenses) : expenses[i].category \in FilterSelectOptions

\* what the filter control makes of it: no step ever selects Shopping
C13_ShoppingIsNeverSelected == filterCategory # "Shopping"

\* C14: in every state reached from the default draft by edits (the category
\* taken from the selector's options) and submit attempts, the draft's
\* category is a member of the enumeration and the error map has no message
\* for the category.
C14_CategoryErrorUnreachable ==
    /\ formData.category \in Categories
    /\ errors["category"] = Undefined
    /\ ~RuleViolated("category", formData)

\* a rejected attempt on a draft whose category was changed: the other rules
\* reported, the category not
C14_Witness ==
    /\ handler = "handleSubmit"
    /\ formData.category = "Entertainment"
    /\ errors["description"] = RuleMessage("description")
    /\ errors["amount"] = RuleMessage("amount")
    /\ errors["category"] = Undefined

\* C15: whenever the error map holds a message for a field, the draft's
\* current value of that field violates that field's rule.
C15_StoredErrorsAreNeverStale ==
    \A f \in Fields : errors[f] # Undefined => RuleViolated(f, formData)

\* after a rejected attempt the description was corrected and lost its error;
\* the amount, still negative, keeps its own
C15_Witness ==
    /\ handler = "handleInputChange"
    /\ formData.description = <<"a">>
    /\ formData.amount = <<"-", "5">>
    /\ errors = [EmptyObject EXCEPT !["amount"] = RuleMessage("amount")]

====
